---- MODULE Spec2Model ----
(***************************************************************************)
(* Model of the causal-flow rewriter of quizx's superoptimiser:            *)
(*   superopt/src/rewrite_sets.rs  (rule sets, RuleSide::boundary, ios)    *)
(*   superopt/src/rewriter.rs      (from_rewrite_rules, get_rewrites,      *)
(*                                  apply_rewrite)                         *)
(* The diagram library (quizx::vec_graph), the causal-flow computation,    *)
(* the pattern matcher and the cost metric live outside these two files;   *)
(* they are modelled from their documented contracts.                      *)
(***************************************************************************)
EXTENDS Integers, Sequences, FiniteSets, TLC

\* Largest number of interior vertices (spiders) of a target diagram.
MaxSpiders == 4

\* Largest number of edges between the two wires of a target diagram.
MaxCross == 2

----------------------------------------------------------------------------
(* Diagram library: Vec<Option<VData>> vertex table, edge set, ordered     *)
(* inputs / outputs, and the stack of freed vertex slots.                  *)

NoVertex == [ty |-> "None", phase |-> 0]

EmptyGraph == [vdata |-> <<>>, edata |-> {}, inputs |-> <<>>, outputs |-> <<>>,
               holes |-> <<>>]

\* Vertex v (0-based, as in the code) lives in slot v + 1 of vdata.
Slots(g) == {i - 1 : i \in DOMAIN g.vdata}

Contains(g, v) == v \in Slots(g) /\ g.vdata[v + 1].ty # "None"

Vertices(g) == {v \in Slots(g) : Contains(g, v)}

VertexType(g, v) == g.vdata[v + 1].ty

Phase(g, v) == g.vdata[v + 1].phase

Lo(a, b) == IF a <= b THEN a ELSE b

Hi(a, b) == IF a <= b THEN b ELSE a

Edge(s, t, ety) == <<Lo(s, t), Hi(s, t), ety>>

Connected(g, s, t) == \E e \in g.edata : e[1] = Lo(s, t) /\ e[2] = Hi(s, t)

EdgeType(g, s, t) ==
    (CHOOSE e \in g.edata : e[1] = Lo(s, t) /\ e[2] = Hi(s, t))[3]

Neighbors(g, v) ==
    {e[2] : e \in {x \in g.edata : x[1] = v}} \cup {e[1] : e \in {x \in g.edata : x[2] = v}}

IncidentEdges(g, v) == {e \in g.edata : e[1] = v \/ e[2] = v}

\* add_vertex_with_phase: a freed slot is reused before the table grows.
AddVertexSlot(g) ==
    IF g.holes # <<>> THEN g.holes[Len(g.holes)] ELSE Len(g.vdata)

AddVertexWithPhase(g, ty, phase) ==
    LET v == AddVertexSlot(g)
        d == [ty |-> ty, phase |-> phase]
    IN  IF g.holes # <<>>
        THEN [g EXCEPT !.vdata[v + 1] = d,
                       !.holes = SubSeq(g.holes, 1, Len(g.holes) - 1)]
        ELSE [g EXCEPT !.vdata = Append(g.vdata, d)]

\* remove_vertex: frees the slot and drops every incident edge; the input and
\* output lists are not touched.
RemoveVertex(g, v) ==
    [g EXCEPT !.vdata[v + 1] = NoVertex,
              !.edata = g.edata \ IncidentEdges(g, v),
              !.holes = Append(g.holes, v)]

SetPhase(g, v, p) == [g EXCEPT !.vdata[v + 1].phase = p]

SetVertexType(g, v, ty) == [g EXCEPT !.vdata[v + 1].ty = ty]

\* Phases are multiples of pi/2 kept modulo 2*pi, so pi is 2.
AddToPhase(g, v, p) == SetPhase(g, v, (Phase(g, v) + p) % 4)

AddEdgeWithType(g, s, t, ety) == [g EXCEPT !.edata = g.edata \cup {Edge(s, t, ety)}]

RemoveEdge(g, s, t) ==
    [g EXCEPT !.edata = {e \in g.edata : ~(e[1] = Lo(s, t) /\ e[2] = Hi(s, t))}]

SetEdgeType(g, s, t, ety) == AddEdgeWithType(RemoveEdge(g, s, t), s, t, ety)

IsSpider(ty) == ty \in {"Z", "X"}

\* add_edge_smart: a self-loop or a parallel edge is resolved by the diagram
\* algebra; ok = FALSE is the library's panic on a vertex kind it does not
\* support there.
AddEdgeSmart(g, s, t, ety) ==
    LET st == VertexType(g, s)
        tt == VertexType(g, t)
    IN  IF s = t
        THEN IF IsSpider(st)
             THEN [ok |-> TRUE, g |-> IF ety = "H" THEN AddToPhase(g, s, 2) ELSE g]
             ELSE [ok |-> FALSE, g |-> g]
        ELSE IF Connected(g, s, t)
        THEN LET ety0 == EdgeType(g, s, t)
             IN  IF IsSpider(st) /\ st = tt
                 THEN CASE ety0 = "N" /\ ety = "N" -> [ok |-> TRUE, g |-> g]
                        [] ety0 = "H" /\ ety = "H" -> [ok |-> TRUE, g |-> RemoveEdge(g, s, t)]
                        [] ety0 = "H" /\ ety = "N" ->
                             [ok |-> TRUE, g |-> AddToPhase(SetEdgeType(g, s, t, "N"), s, 2)]
                        [] OTHER -> [ok |-> TRUE, g |-> AddToPhase(g, s, 2)]
                 ELSE IF IsSpider(st) /\ IsSpider(tt)
                 THEN CASE ety0 = "N" /\ ety = "N" -> [ok |-> TRUE, g |-> RemoveEdge(g, s, t)]
                        [] ety0 = "N" /\ ety = "H" ->
                             [ok |-> TRUE, g |-> AddToPhase(SetEdgeType(g, s, t, "H"), s, 2)]
                        [] ety0 = "H" /\ ety = "N" -> [ok |-> TRUE, g |-> AddToPhase(g, s, 2)]
                        [] OTHER -> [ok |-> TRUE, g |-> g]
                 ELSE [ok |-> FALSE, g |-> g]
        ELSE [ok |-> TRUE, g |-> AddEdgeWithType(g, s, t, ety)]

\* edges(): every edge once, smaller endpoint first, in ascending order.
EdgeBefore(e, f) == e[1] < f[1] \/ (e[1] = f[1] /\ e[2] < f[2])

RECURSIVE EdgeSeq(_)
EdgeSeq(es) ==
    IF es = {} THEN <<>>
    ELSE LET e == CHOOSE x \in es : \A y \in es \ {x} : EdgeBefore(x, y)
         IN  <<e>> \o EdgeSeq(es \ {e})

Edges(g) == EdgeSeq(g.edata)

\* vertices(): the live vertices in ascending order.
RECURSIVE AscendingSeq(_)
AscendingSeq(S) ==
    IF S = {} THEN <<>>
    ELSE LET m == CHOOSE x \in S : \A y \in S : x <= y
         IN  <<m>> \o AscendingSeq(S \ {m})

VertexSeq(g) == AscendingSeq(Vertices(g))

Range(s) == {s[i] : i \in DOMAIN s}

----------------------------------------------------------------------------
(* Rule data model (rewrite_sets.rs).                                      *)

\* DecodedGraph::from_name: lookup in the name table; a miss is a panic.
HasName(dg, name) == name \in DOMAIN dg.names

FromName(dg, name) == dg.names[name]

\* RewriteIos::translated: both name lists mapped through from_name.
Translated(ios, dg) ==
    [inputs  |-> [k \in DOMAIN ios.inputs |-> FromName(dg, ios.inputs[k])],
     outputs |-> [k \in DOMAIN ios.outputs |-> FromName(dg, ios.outputs[k])]]

TranslatedOk(ios, dg) ==
    /\ \A k \in DOMAIN ios.inputs : HasName(dg, ios.inputs[k])
    /\ \A k \in DOMAIN ios.outputs : HasName(dg, ios.outputs[k])

\* RuleSide::graph
SideGraph(side) == side.g.g

\* RuleSide::boundary: the unique neighbour of every input, then of every
\* output; exactly_one() panics on any other neighbour count.
BoundaryOk(g) ==
    \A k \in DOMAIN (g.inputs \o g.outputs) :
        Cardinality(Neighbors(g, (g.inputs \o g.outputs)[k])) = 1

Boundary(g) ==
    [k \in DOMAIN (g.inputs \o g.outputs) |->
        CHOOSE u \in Neighbors(g, (g.inputs \o g.outputs)[k]) : TRUE]

\* RuleSide::ios: every orientation translated to vertex indices.
Ios(side) == [k \in DOMAIN side.ios |-> Translated(side.ios[k], side.g)]

\* RewriteSet::lhs: the LHS diagram together with its orientations.
Lhs(rw_set) == [g |-> rw_set.lhs, ios |-> rw_set.lhs_ios]

\* RewriteSet::rhss
Rhss(rw_set) == rw_set.rhss

----------------------------------------------------------------------------
(* External collaborators, modelled from their contracts.                  *)

Spiders(g) == {v \in Vertices(g) : IsSpider(VertexType(g, v))}

IoNeighbors(g, io) == UNION {Neighbors(g, io[k]) : k \in DOMAIN io}

\* Causal flow by backward layering from the outputs: a corrector with one
\* unprocessed neighbour corrects it.
RECURSIVE FlowLayers(_, _, _, _)
FlowLayers(g, ins, processed, correctors) ==
    LET Un(v) == (Neighbors(g, v) \cap Spiders(g)) \ processed
        ready == {v \in correctors : Cardinality(Un(v)) = 1}
    IN  IF ready = {} THEN processed
        ELSE LET v == CHOOSE x \in ready : TRUE
                 u == CHOOSE x \in Un(v) : TRUE
             IN  FlowLayers(g, ins, processed \cup {u},
                            (correctors \ {v}) \cup ({u} \ ins))

\* CausalFlow::from_graph(g).is_ok()
HasCausalFlow(g) ==
    LET ins  == IoNeighbors(g, g.inputs) \cap Spiders(g)
        outs == IoNeighbors(g, g.outputs) \cap Spiders(g)
    IN  FlowLayers(g, ins, outs, outs \ ins) = Spiders(g)

\* CausalPattern::new(p, flow, boundary)
CausalPattern(p, boundary) == [graph |-> p, boundary |-> boundary]

\* The embeddings of one pattern: kinds, phases and pattern edges are kept,
\* a pattern-interior vertex has no edge leaving the match, a pattern-boundary
\* vertex may have any further edges.
Embeddings(pat, graph) ==
    LET p  == pat.graph
        PS == Spiders(p)
        bd == Range(pat.boundary)
    IN  {f \in [PS -> Spiders(graph)] :
            /\ \A u, v \in PS : u # v => f[u] # f[v]
            /\ \A v \in PS : /\ VertexType(graph, f[v]) = VertexType(p, v)
                             /\ Phase(graph, f[v]) = Phase(p, v)
            /\ \A u, v \in PS : Connected(p, u, v) =>
                   Connected(graph, f[u], f[v]) /\ EdgeType(graph, f[u], f[v]) = EdgeType(p, u, v)
            /\ \A v \in PS \ bd :
                   Neighbors(graph, f[v]) = {f[u] : u \in Neighbors(p, v) \cap PS}}

RECURSIVE SetToSeq(_)
SetToSeq(S) ==
    IF S = {} THEN <<>>
    ELSE LET x == CHOOSE y \in S : TRUE IN <<x>> \o SetToSeq(S \ {x})

PatternMatch(pid, pat, f) ==
    [pattern_id |-> pid,
     boundary   |-> [k \in DOMAIN pat.boundary |-> f[pat.boundary[k]]],
     internal   |-> {f[v] : v \in Spiders(pat.graph) \ Range(pat.boundary)}]

MatchesOf(pid, pat, graph) ==
    LET fs == SetToSeq(Embeddings(pat, graph))
    IN  [k \in DOMAIN fs |-> PatternMatch(pid, pat, fs[k])]

\* CausalMatcher::find_matches: pattern ids are 0-based positions in the
\* registered pattern list.
RECURSIVE FindMatchesFrom(_, _, _)
FindMatchesFrom(patterns, graph, k) ==
    IF k > Len(patterns) THEN <<>>
    ELSE MatchesOf(k - 1, patterns[k], graph) \o FindMatchesFrom(patterns, graph, k + 1)

FindMatches(matcher, graph) == FindMatchesFrom(matcher.patterns, graph, 1)

\* CostMetric::cost of the two-qubit gate count: the edges joining two spiders.
Cost(g) == Cardinality({e \in g.edata : e[1] \in Spiders(g) /\ e[2] \in Spiders(g)})

----------------------------------------------------------------------------
(* The rewriter (rewriter.rs).                                             *)

\* One pass of the orientation loop of from_rewrite_rules (lines 147-154):
\* the LHS diagram with this orientation's inputs and outputs, its flow, and
\* the pattern registered under the next pattern id.
RECURSIVE CompileOrientations(_, _, _, _, _)
CompileOrientations(acc, lhs, boundary, rhs_idx, k) ==
    IF k > Len(lhs.ios) \/ ~acc.ok THEN acc
    ELSE IF ~TranslatedOk(lhs.ios[k], lhs.g)
    THEN [acc EXCEPT !.ok = FALSE, !.err = "vertex name not found"]
    ELSE LET io == Ios(lhs)[k]
             p  == [SideGraph(lhs) EXCEPT !.inputs = io.inputs, !.outputs = io.outputs]
         IN  IF ~HasCausalFlow(p)
             THEN [acc EXCEPT !.ok = FALSE, !.err = "invalid causal flow in pattern"]
             ELSE CompileOrientations(
                      [acc EXCEPT !.matcher.patterns = Append(@, CausalPattern(p, boundary)),
                                  !.lhs_to_rhs = Append(@, rhs_idx)],
                      lhs, boundary, rhs_idx, k + 1)

\* The body of the rule-set loop of from_rewrite_rules (lines 143-155).
CompileRuleSet(acc, rw_set) ==
    LET rhs_idx == Len(acc.all_rhs)
        pushed  == [acc EXCEPT !.all_rhs = Append(@, Rhss(rw_set))]
    IN  IF ~BoundaryOk(SideGraph(Lhs(rw_set)))
        THEN [pushed EXCEPT !.ok = FALSE, !.err = "boundary node neighbors"]
        ELSE CompileOrientations(pushed, Lhs(rw_set), Boundary(SideGraph(Lhs(rw_set))),
                                 rhs_idx, 1)

RECURSIVE CompileFrom(_, _, _)
CompileFrom(acc, rules, k) ==
    IF k > Len(rules) \/ ~acc.ok THEN acc
    ELSE CompileFrom(CompileRuleSet(acc, rules[k]), rules, k + 1)

NoRewriter == [ok |-> TRUE, err |-> "", matcher |-> [patterns |-> <<>>],
               lhs_to_rhs |-> <<>>, all_rhs |-> <<>>]

\* CausalRewriter::from_rewrite_rules. lhs_to_rhs[pid + 1] is the RhsIdx of
\* pattern pid; all_rhs[idx + 1] is the RHS group idx.
FromRewriteRules(rules) == CompileFrom(NoRewriter, rules, 1)

\* CausalRewriter::get_rhs
GetRhs(rewriter, lhs_idx) == rewriter.all_rhs[rewriter.lhs_to_rhs[lhs_idx + 1] + 1]

Rewrite(lhs_boundary, rhs_boundary, lhs_internal, rhs) ==
    [lhs_boundary |-> lhs_boundary, rhs_boundary |-> rhs_boundary,
     lhs_internal |-> lhs_internal, rhs |-> rhs]

\* The closure taking the first RHS alternative only.
CandidatesOfFirst(m, rhss, k) ==
    IF rhss = <<>> THEN [ok |-> TRUE, err |-> "", rewrites |-> <<>>]
    ELSE IF ~BoundaryOk(SideGraph(rhss[1]))
    THEN [ok |-> FALSE, err |-> "boundary node neighbors", rewrites |-> <<>>]
    ELSE IF Len(m.boundary) # Len(Boundary(SideGraph(rhss[1])))
    THEN [ok |-> FALSE, err |-> "assert_eq boundary lengths", rewrites |-> <<>>]
    ELSE [ok |-> TRUE, err |-> "",
          rewrites |-> <<Rewrite(m.boundary, Boundary(SideGraph(rhss[1])), m.internal,
                                 SideGraph(rhss[1]))>>]

\* The closure of get_rewrites (lines 67-79) over the RHS group of one match.
RECURSIVE CandidatesOf(_, _, _)
CandidatesOf(m, rhss, k) ==
    IF k > Len(rhss) THEN [ok |-> TRUE, err |-> "", rewrites |-> <<>>]
    ELSE IF ~BoundaryOk(SideGraph(rhss[k]))
    THEN [ok |-> FALSE, err |-> "boundary node neighbors", rewrites |-> <<>>]
    ELSE IF Len(m.boundary) # Len(Boundary(SideGraph(rhss[k])))
    THEN [ok |-> FALSE, err |-> "assert_eq boundary lengths", rewrites |-> <<>>]
    ELSE LET rest == CandidatesOf(m, rhss, k + 1)
         IN  IF ~rest.ok THEN rest
             ELSE [rest EXCEPT !.rewrites =
                 <<Rewrite(m.boundary, Boundary(SideGraph(rhss[k])), m.internal,
                           SideGraph(rhss[k]))>> \o @]

RECURSIVE CandidatesFrom(_, _, _)
CandidatesFrom(rewriter, matches, k) ==
    IF k > Len(matches) THEN [ok |-> TRUE, err |-> "", rewrites |-> <<>>]
    ELSE LET here == CandidatesOf(matches[k], GetRhs(rewriter, matches[k].pattern_id), 1)
         IN  IF ~here.ok THEN here
             ELSE LET rest == CandidatesFrom(rewriter, matches, k + 1)
                  IN  IF ~rest.ok THEN rest
                      ELSE [rest EXCEPT !.rewrites = here.rewrites \o @]

\* CausalRewriter::get_rewrites
GetRewrites(rewriter, graph) ==
    IF ~HasCausalFlow(graph)
    THEN [ok |-> FALSE, err |-> "no causal flow", rewrites |-> <<>>]
    ELSE CandidatesFrom(rewriter, FindMatches(rewriter.matcher, graph), 1)

\* new_r_names.insert(r, l)
Insert(names, r, l) == (r :> l) @@ names

\* apply_rewrite, lines 94-98: the paired boundary vertices.
RECURSIVE SpliceFrom(_, _, _)
SpliceFrom(st, rewrite, k) ==
    IF k > Len(rewrite.lhs_boundary) \/ k > Len(rewrite.rhs_boundary) \/ ~st.ok THEN st
    ELSE LET l == rewrite.lhs_boundary[k]
             r == rewrite.rhs_boundary[k]
             names == Insert(st.names, r, l)
         IN  IF ~Contains(st.g, l)
             THEN [ok |-> FALSE, g |-> st.g, names |-> names]
             ELSE SpliceFrom(
                      [ok |-> TRUE, names |-> names,
                       g |-> SetVertexType(SetPhase(st.g, l, Phase(rewrite.rhs, r)), l,
                                           VertexType(rewrite.rhs, r))],
                      rewrite, k + 1)

\* The splice with l and r confused: the kind and phase land on the target
\* vertex that has the RHS vertex's index.
SpliceBoundaryAtRhsIndex(g0, names, rewrite) ==
    SpliceFrom([ok |-> TRUE, g |-> g0, names |-> names],
               [rewrite EXCEPT !.lhs_boundary = rewrite.rhs_boundary], 1)

SpliceBoundary(g0, names, rewrite) ==
    SpliceFrom([ok |-> TRUE, g |-> g0, names |-> names], rewrite, 1)

\* apply_rewrite, lines 101-114: the unmapped, non-boundary-kind RHS vertices.
RECURSIVE InsertFrom(_, _, _, _)
InsertFrom(st, rhs, vs, k) ==
    IF k > Len(vs) THEN st
    ELSE LET r == vs[k]
         IN  IF r \in DOMAIN st.names \/ VertexType(rhs, r) = "B"
             THEN InsertFrom(st, rhs, vs, k + 1)
             ELSE InsertFrom(
                      [ok |-> TRUE,
                       g |-> AddVertexWithPhase(st.g, VertexType(rhs, r), Phase(rhs, r)),
                       names |-> Insert(st.names, r, AddVertexSlot(st.g))],
                      rhs, vs, k + 1)

InsertInternal(g0, names, rewrite) ==
    InsertFrom([ok |-> TRUE, g |-> g0, names |-> names], rewrite.rhs,
               VertexSeq(rewrite.rhs), 1)

\* apply_rewrite, lines 117-124: the RHS edges with both ends mapped.
RECURSIVE ReconnectFrom(_, _, _)
ReconnectFrom(st, es, k) ==
    IF k > Len(es) \/ ~st.ok THEN st
    ELSE LET e == es[k]
         IN  IF ~(e[1] \in DOMAIN st.names /\ e[2] \in DOMAIN st.names)
             THEN ReconnectFrom(st, es, k + 1)
             ELSE IF e[3] # "H"
             THEN [st EXCEPT !.ok = FALSE]
             ELSE LET added == AddEdgeSmart(st.g, st.names[e[1]], st.names[e[2]], e[3])
                  IN  ReconnectFrom([ok |-> added.ok, g |-> added.g, names |-> st.names],
                                    es, k + 1)

\* The reconnection with add_edge in place of add_edge_smart: a plain edge,
\* whatever the RHS says.
RECURSIVE ReconnectPlainFrom(_, _, _)
ReconnectPlainFrom(st, es, k) ==
    IF k > Len(es) THEN st
    ELSE LET e == es[k]
         IN  IF ~(e[1] \in DOMAIN st.names /\ e[2] \in DOMAIN st.names)
             THEN ReconnectPlainFrom(st, es, k + 1)
             ELSE ReconnectPlainFrom(
                      [st EXCEPT !.g = AddEdgeWithType(RemoveEdge(st.g, st.names[e[1]], st.names[e[2]]),
                                                       st.names[e[1]], st.names[e[2]], "N")],
                      es, k + 1)

\* The reconnection that takes an edge only when its mapped ends ascend.
RECURSIVE ReconnectAscendingFrom(_, _, _)
ReconnectAscendingFrom(st, es, k) ==
    IF k > Len(es) \/ ~st.ok THEN st
    ELSE LET e == es[k]
         IN  IF ~(e[1] \in DOMAIN st.names /\ e[2] \in DOMAIN st.names)
             THEN ReconnectAscendingFrom(st, es, k + 1)
             ELSE IF e[3] # "H"
             THEN [st EXCEPT !.ok = FALSE]
             ELSE IF st.names[e[1]] > st.names[e[2]]
             THEN ReconnectAscendingFrom(st, es, k + 1)
             ELSE LET added == AddEdgeSmart(st.g, st.names[e[1]], st.names[e[2]], e[3])
                  IN  ReconnectAscendingFrom(
                          [ok |-> added.ok, g |-> added.g, names |-> st.names], es, k + 1)

ReconnectAscending(g0, names, rewrite) ==
    ReconnectAscendingFrom([ok |-> TRUE, g |-> g0, names |-> names], Edges(rewrite.rhs), 1)

ReconnectPlain(g0, names, rewrite) ==
    ReconnectPlainFrom([ok |-> TRUE, g |-> g0, names |-> names], Edges(rewrite.rhs), 1)

Reconnect(g0, names, rewrite) ==
    ReconnectFrom([ok |-> TRUE, g |-> g0, names |-> names], Edges(rewrite.rhs), 1)

\* CostDelta::default()
DefaultCostDelta == 0

----------------------------------------------------------------------------
(* Diagrams and rule sets the rewriter is run on.                          *)

\* A diagram laid out like the test fixture simple_graph: the input
\* boundary vertices first, then the spiders, then the output boundary
\* vertices; every boundary vertex hangs on one spider by a plain edge.
\* es holds the spider-spider edges <<i, j, kind>> over spider numbers 1..n.
MkDiagram(kinds, phases, es, ins, outs) ==
    LET ni == Len(ins)
        n  == Len(kinds)
        no == Len(outs)
        S(j) == ni + j - 1
    IN  [vdata   |-> [i \in 1..(ni + n + no) |->
                        IF i > ni /\ i <= ni + n
                        THEN [ty |-> kinds[i - ni], phase |-> phases[i - ni]]
                        ELSE [ty |-> "B", phase |-> 0]],
         edata   |-> {Edge(S(e[1]), S(e[2]), e[3]) : e \in es}
                     \cup {Edge(k - 1, S(ins[k]), "N") : k \in 1..ni}
                     \cup {Edge(ni + n + k - 1, S(outs[k]), "N") : k \in 1..no},
         inputs  |-> [k \in 1..ni |-> k - 1],
         outputs |-> [k \in 1..no |-> ni + n + k - 1],
         holes   |-> <<>>]

InNames == <<"i0", "i1">>

OutNames == <<"o0", "o1">>

\* The decoded form of a diagram: the name table of its boundary vertices.
Decoded(g) ==
    [g |-> g,
     names |-> [nm \in {InNames[k] : k \in DOMAIN g.inputs}
                       \cup {OutNames[k] : k \in DOMAIN g.outputs} |->
                  IF \E k \in DOMAIN g.inputs : InNames[k] = nm
                  THEN g.inputs[CHOOSE k \in DOMAIN g.inputs : InNames[k] = nm]
                  ELSE g.outputs[CHOOSE k \in DOMAIN g.outputs : OutNames[k] = nm]]]

RewriteIos(inputs, outputs) == [inputs |-> inputs, outputs |-> outputs]

Forward == RewriteIos(<<"i0">>, <<"o0">>)

Backward == RewriteIos(<<"o0">>, <<"i0">>)

\* One wire through n spiders joined by edges of kind ety.
Chain(kinds, phases, ety) ==
    MkDiagram(kinds, phases, {<<j, j + 1, ety>> : j \in 1..(Len(kinds) - 1)},
              <<1>>, <<Len(kinds)>>)

RewriteRhs(g, reduction) == [reduction |-> reduction, g |-> Decoded(g), ios |-> <<Forward>>]

RewriteSet(lhs, lhs_ios, rhss) == [lhs |-> Decoded(lhs), lhs_ios |-> lhs_ios, rhss |-> rhss]

\* Four spiders in a row become three (with a new X spider), two, or four
\* others.
ShortenFour ==
    RewriteSet(Chain(<<"Z", "Z", "Z", "Z">>, <<0, 0, 0, 0>>, "H"), <<Forward, Backward>>,
               <<RewriteRhs(Chain(<<"Z", "X", "Z">>, <<1, 1, 0>>, "H"), 1),
                 RewriteRhs(Chain(<<"Z", "Z">>, <<0, 1>>, "H"), 2),
                 RewriteRhs(Chain(<<"Z", "X", "Z", "Z">>, <<0, 1, 1, 0>>, "H"), 0)>>)

\* Three spiders in a row become two, or four.
ShortenThree ==
    RewriteSet(Chain(<<"Z", "Z", "Z">>, <<0, 0, 0>>, "H"), <<Forward>>,
               <<RewriteRhs(Chain(<<"X", "Z">>, <<1, 0>>, "H"), 1),
                 RewriteRhs(Chain(<<"Z", "Z", "X", "Z">>, <<0, 1, 1, 0>>, "H"), -1)>>)

\* Two adjacent boundary spiders get new phases, or one of them the other
\* colour.
Rephase ==
    RewriteSet(Chain(<<"Z", "Z">>, <<0, 0>>, "H"), <<Forward>>,
               <<RewriteRhs(Chain(<<"Z", "Z">>, <<1, 1>>, "H"), 0),
                 RewriteRhs(Chain(<<"Z", "X">>, <<0, 1>>, "H"), 0)>>)

\* One spider, touching the input and the output, becomes two.
Unfuse ==
    RewriteSet(Chain(<<"Z">>, <<0>>, "H"), <<Forward>>,
               <<RewriteRhs(Chain(<<"Z", "Z">>, <<1, 0>>, "H"), -1)>>)

\* An RHS with one boundary vertex against an LHS with two.
BadArity ==
    RewriteSet(Chain(<<"Z", "Z", "Z">>, <<0, 0, 0>>, "H"), <<Forward>>,
               <<RewriteRhs(MkDiagram(<<"Z">>, <<1>>, {}, <<1>>, <<>>), 1)>>)

\* The bare wire: an input joined to an output.
Wire ==
    [vdata |-> <<[ty |-> "B", phase |-> 0], [ty |-> "B", phase |-> 0]>>,
     edata |-> {Edge(0, 1, "N")}, inputs |-> <<0>>, outputs |-> <<1>>, holes |-> <<>>]

\* RHS alternatives with a plain edge between mapped vertices.
PlainEdge ==
    RewriteSet(Chain(<<"Z", "Z", "Z">>, <<0, 0, 0>>, "H"), <<Forward>>,
               <<RewriteRhs(Chain(<<"Z", "Z">>, <<0, 0>>, "N"), 1),
                 RewriteRhs(Wire, 2)>>)

\* An orientation without outputs, which has no causal flow.
NoFlowOrientation ==
    RewriteSet(Chain(<<"Z", "Z", "Z">>, <<0, 0, 0>>, "H"),
               <<RewriteIos(<<"i0", "o0">>, <<>>)>>,
               <<RewriteRhs(Chain(<<"Z", "Z">>, <<0, 0>>, "H"), 1)>>)

RuleLists ==
    {<<ShortenFour>>, <<ShortenThree>>, <<Rephase>>, <<Unfuse>>, <<BadArity>>,
     <<PlainEdge>>, <<NoFlowOrientation>>, <<ShortenFour, ShortenThree>>,
     <<ShortenThree, ShortenFour>>, <<Rephase, Unfuse>>}

\* Two wires of la and lb spiders, hadamard edges along each wire and across
\* the pairs in cross; spider hot (if any) carries phase 1.
Wires(la, lb, cross, hot) ==
    MkDiagram([j \in 1..(la + lb) |-> "Z"],
              [j \in 1..(la + lb) |-> IF j = hot THEN 1 ELSE 0],
              {<<j, j + 1, "H">> : j \in (1..(la + lb - 1)) \ {la}}
                  \cup {<<c[1], la + c[2], "H">> : c \in cross},
              IF lb = 0 THEN <<1>> ELSE <<1, la + 1>>,
              IF lb = 0 THEN <<la>> ELSE <<la, la + lb>>)

TargetDiagrams ==
    UNION {UNION {{Wires(la, lb, cross, hot) :
                      cross \in {c \in SUBSET ((1..la) \X (1..lb)) : Cardinality(c) <= MaxCross},
                      hot \in 0..(la + lb)} :
                  lb \in 0..Lo(la, MaxSpiders - la)} :
           la \in 1..MaxSpiders}

----------------------------------------------------------------------------
(* The state machine: compile the rules, enumerate the candidates on the   *)
(* target, apply one of them.                                              *)

VARIABLES rules, graph, rewriter, rewrites, rewrite, g, new_r_names, todo,
          cost_delta, pc

vars == <<rules, graph, rewriter, rewrites, rewrite, g, new_r_names, todo,
          cost_delta, pc>>

NoRewrite == Rewrite(<<>>, <<>>, {}, EmptyGraph)

Init ==
    /\ rules \in RuleLists
    /\ graph \in TargetDiagrams
    /\ rewriter = NoRewriter
    /\ rewrites = <<>>
    /\ rewrite = NoRewrite
    /\ g = EmptyGraph
    /\ new_r_names = <<>>
    /\ todo = {}
    /\ cost_delta = DefaultCostDelta
    /\ pc = "start"

\* from_rewrite_rules(rules)
Compile ==
    /\ pc = "start"
    /\ rewriter' = FromRewriteRules(rules)
    /\ pc' = IF rewriter'.ok THEN "compiled" ELSE "compile_panic"
    /\ UNCHANGED <<rules, graph, rewrites, rewrite, g, new_r_names, todo, cost_delta>>

\* get_rewrites(&graph)
Match ==
    /\ pc = "compiled"
    /\ LET got == GetRewrites(rewriter, graph)
       IN  /\ rewrites' = got.rewrites
           /\ pc' = IF got.ok THEN "matched"
                    ELSE IF got.err = "no causal flow" THEN "no_flow_panic"
                    ELSE "match_panic"
    /\ UNCHANGED <<rules, graph, rewriter, rewrite, g, new_r_names, todo, cost_delta>>

\* apply_rewrite, lines 85-86: the private copy and the empty vertex map.
Clone ==
    /\ pc = "matched"
    /\ \E k \in DOMAIN rewrites :
          /\ rewrite' = rewrites[k]
          /\ todo' = rewrites[k].lhs_internal
    /\ g' = graph
    /\ new_r_names' = <<>>
    /\ pc' = "remove"
    /\ UNCHANGED <<rules, graph, rewriter, rewrites, cost_delta>>

\* The removal done on the caller's diagram as well as on the copy.
RemoveInternalInPlace ==
    /\ pc = "remove"
    /\ \E v \in todo :
          /\ todo' = todo \ {v}
          /\ IF Contains(g, v)
             THEN g' = RemoveVertex(g, v) /\ graph' = RemoveVertex(graph, v) /\ pc' = "remove"
             ELSE g' = g /\ graph' = graph /\ pc' = "apply_panic"
    /\ UNCHANGED <<rules, rewriter, rewrites, rewrite, new_r_names, cost_delta>>

\* apply_rewrite, lines 89-91: one turn of the loop over the interior set,
\* which a hash set hands out in any order.
RemoveInternal ==
    /\ pc = "remove"
    /\ \E v \in todo :
          /\ todo' = todo \ {v}
          /\ IF Contains(g, v)
             THEN g' = RemoveVertex(g, v) /\ pc' = "remove"
             ELSE g' = g /\ pc' = "apply_panic"
    /\ UNCHANGED <<rules, graph, rewriter, rewrites, rewrite, new_r_names, cost_delta>>

\* apply_rewrite, lines 94-98
Splice ==
    /\ pc = "remove"
    /\ todo = {}
    /\ LET st == SpliceBoundary(g, new_r_names, rewrite)
       IN  /\ g' = st.g
           /\ new_r_names' = st.names
           /\ pc' = IF st.ok THEN "insert" ELSE "apply_panic"
    /\ UNCHANGED <<rules, graph, rewriter, rewrites, rewrite, todo, cost_delta>>

\* apply_rewrite, lines 101-114
InsertNew ==
    /\ pc = "insert"
    /\ LET st == InsertInternal(g, new_r_names, rewrite)
       IN  /\ g' = st.g
           /\ new_r_names' = st.names
    /\ pc' = "reconnect"
    /\ UNCHANGED <<rules, graph, rewriter, rewrites, rewrite, todo, cost_delta>>

\* apply_rewrite, lines 117-129: the edges, then the result.
ReconnectEdges ==
    /\ pc = "reconnect"
    /\ LET st == Reconnect(g, new_r_names, rewrite)
       IN  /\ g' = st.g
           /\ pc' = IF st.ok THEN "done" ELSE "apply_panic"
    /\ cost_delta' = DefaultCostDelta
    /\ UNCHANGED <<rules, graph, rewriter, rewrites, rewrite, new_r_names, todo>>

Next == Compile \/ Match \/ Clone \/ RemoveInternal \/ Splice \/ InsertNew \/ ReconnectEdges

Spec == Init /\ [][Next]_vars

----------------------------------------------------------------------------
(* Properties.                                                             *)

Outside(gr, rw) == Vertices(gr) \ (rw.lhs_internal \cup Range(rw.lhs_boundary))

\* C1: apply_rewrite never changes the diagram it is given, whether it
\* returns a new diagram or fails part-way; every step works on the copy g.
C1_InputNeverMutated == [][graph' = graph]_vars

\* A failed application that had already changed its private copy.
C1_Witness == pc = "apply_panic" /\ g # graph /\ rewrite.lhs_internal # {}

EdgeKindInvariant(gr) ==
    \A e \in gr.edata :
        /\ Contains(gr, e[1]) /\ Contains(gr, e[2])
        /\ e[3] = IF IsSpider(VertexType(gr, e[1])) /\ IsSpider(VertexType(gr, e[2]))
                  THEN "H" ELSE "N"

\* C3: if the target has hadamard edges between interior vertices and plain
\* edges at boundary-kind vertices, so has the result of a successful
\* apply_rewrite.
C3_EdgeKinds == (pc = "done" /\ EdgeKindInvariant(graph)) => EdgeKindInvariant(g)

\* A rewrite that spliced a boundary vertex to another kind and whose RHS
\* edge met an edge the target already had between two boundary vertices.
C3_Witness ==
    /\ pc = "done"
    /\ EdgeKindInvariant(graph)
    /\ \E v \in Range(rewrite.lhs_boundary) : VertexType(g, v) # VertexType(graph, v)
    /\ \E i, j \in DOMAIN rewrite.lhs_boundary :
          /\ Connected(graph, rewrite.lhs_boundary[i], rewrite.lhs_boundary[j])
          /\ Connected(rewrite.rhs, rewrite.rhs_boundary[i], rewrite.rhs_boundary[j])

\* C4: the cost of the target plus the reported cost_delta is the cost of the
\* rewritten diagram.
C4_CostDeltaExact == pc = "done" => Cost(graph) + cost_delta = Cost(g)

\* C5: get_rewrites on a target without causal flow ends in a reported,
\* recoverable no-flow failure, never in a panic.
C5_NoFlowReported ==
    (~HasCausalFlow(graph) /\ pc \notin {"start", "compiled", "compile_panic"})
        => pc = "no_flow_error"

\* C6: every rule set a compiled rewriter holds has as many LHS boundary
\* vertices as each of its RHS alternatives, so the length assertion of
\* get_rewrites cannot fire.
C6_ArityInvariant ==
    /\ pc = "compiled" =>
          \A pid \in DOMAIN rewriter.matcher.patterns :
              \A k \in DOMAIN GetRhs(rewriter, pid - 1) :
                  Len(rewriter.matcher.patterns[pid].boundary)
                      = Len(SideGraph(GetRhs(rewriter, pid - 1)[k]).inputs)
                        + Len(SideGraph(GetRhs(rewriter, pid - 1)[k]).outputs)
    /\ pc # "match_panic"

\* The orders in which a hash set of vertices can be iterated.
Orders(S) == {o \in [1..Cardinality(S) -> S] : \A i, j \in DOMAIN o : i # j => o[i] # o[j]}

RECURSIVE RemoveAll(_, _, _)
RemoveAll(gr, order, k) ==
    IF k > Len(order) THEN gr ELSE RemoveAll(RemoveVertex(gr, order[k]), order, k + 1)

\* apply_rewrite as one function of the rewrite, the target and the order in
\* which the interior set is iterated (lines 84-130, for an interior set of
\* live vertices).
ApplyRewrite(rw, gr, order) ==
    LET spliced  == SpliceBoundary(RemoveAll(gr, order, 1), <<>>, rw)
        inserted == InsertInternal(spliced.g, spliced.names, rw)
        joined   == Reconnect(inserted.g, inserted.names, rw)
    IN  [ok |-> spliced.ok /\ joined.ok, graph |-> joined.g, cost_delta |-> DefaultCostDelta]

Renamed(h, v) == IF v \in DOMAIN h THEN h[v] ELSE v

\* g1 and g2 are the same diagram up to the renaming h of the vertices in
\* its domain: same kinds and phases, same edges and edge kinds, same ordered
\* inputs and outputs.
SameUpTo(h, g1, g2) ==
    /\ Vertices(g2) = {Renamed(h, v) : v \in Vertices(g1)}
    /\ \A v \in Vertices(g1) : /\ VertexType(g2, Renamed(h, v)) = VertexType(g1, v)
                               /\ Phase(g2, Renamed(h, v)) = Phase(g1, v)
    /\ g2.edata = {Edge(Renamed(h, e[1]), Renamed(h, e[2]), e[3]) : e \in g1.edata}
    /\ g2.inputs = [k \in DOMAIN g1.inputs |-> Renamed(h, g1.inputs[k])]
    /\ g2.outputs = [k \in DOMAIN g1.outputs |-> Renamed(h, g1.outputs[k])]

\* Isomorphic up to a renaming of the vertices created by the rewrite.
Isomorphic(g1, g2, kept) ==
    \E h \in [Vertices(g1) \ kept -> Vertices(g2) \ kept] :
        /\ \A u, v \in DOMAIN h : u # v => h[u] # h[v]
        /\ SameUpTo(h, g1, g2)

\* C7: the result of apply_rewrite is, up to a renaming of the vertices it
\* created, the same for every order in which the interior set is iterated.
C7_Determinism ==
    pc = "done" =>
        \A order \in Orders(rewrite.lhs_internal) :
            /\ ApplyRewrite(rewrite, graph, order).ok
            /\ Isomorphic(g, ApplyRewrite(rewrite, graph, order).graph,
                          Vertices(graph) \ rewrite.lhs_internal)

\* Two interior vertices were deleted and another order gives a new vertex
\* another index.
C7_Witness ==
    /\ pc = "done"
    /\ Cardinality(rewrite.lhs_internal) >= 2
    /\ \E order \in Orders(rewrite.lhs_internal) :
          ApplyRewrite(rewrite, graph, order).graph # g

\* C8: after a successful apply_rewrite the ordered input and output lists
\* are those of the target, and every paired boundary vertex L is still
\* there, with the kind and phase of its paired RHS boundary vertex R.
C8_IoAndBoundaryKept ==
    pc = "done" =>
        /\ g.inputs = graph.inputs
        /\ g.outputs = graph.outputs
        /\ \A k \in DOMAIN rewrite.lhs_boundary :
              /\ Contains(g, rewrite.lhs_boundary[k])
              /\ VertexType(g, rewrite.lhs_boundary[k])
                     = VertexType(rewrite.rhs, rewrite.rhs_boundary[k])
              /\ Phase(g, rewrite.lhs_boundary[k])
                     = Phase(rewrite.rhs, rewrite.rhs_boundary[k])

\* The rule set whose LHS pattern pid (0-based) was compiled from: the
\* patterns are numbered rule set by rule set, one per orientation.
RECURSIVE OwnerFrom(_, _, _)
OwnerFrom(rs, pid, k) ==
    IF pid < Len(rs[k].lhs_ios) THEN k ELSE OwnerFrom(rs, pid - Len(rs[k].lhs_ios), k + 1)

Owner(rs, pid) == OwnerFrom(rs, pid, 1)

RECURSIVE PairsFrom(_, _, _)
PairsFrom(rs, matches, k) ==
    IF k > Len(matches) THEN <<>>
    ELSE LET m == matches[k]
             alts == rs[Owner(rs, m.pattern_id)].rhss
         IN  [j \in DOMAIN alts |->
                 Rewrite(m.boundary, Boundary(alts[j].g.g), m.internal, alts[j].g.g)]
             \o PairsFrom(rs, matches, k + 1)

\* C9: get_rewrites returns one candidate for every pair of a match and an
\* RHS alternative of the rule set the match's pattern was compiled from, and
\* nothing else; every pattern id has its RHS group.
C9_AllCandidates ==
    pc = "matched" =>
        /\ rewrites = PairsFrom(rules, FindMatches(rewriter.matcher, graph), 1)
        /\ \A pid \in DOMAIN rewriter.matcher.patterns :
              /\ pid \in DOMAIN rewriter.lhs_to_rhs
              /\ rewriter.lhs_to_rhs[pid] + 1 \in DOMAIN rewriter.all_rhs
              /\ GetRhs(rewriter, pid - 1) = rules[Owner(rules, pid - 1)].rhss

\* A match of a pattern whose id is not the index of its RHS group, on a
\* rule set with two alternatives.
C9_Witness ==
    /\ pc = "matched"
    /\ \E k \in DOMAIN rewrites : \E j \in DOMAIN rewrites : rewrites[k].rhs # rewrites[j].rhs
    /\ LET ms == FindMatches(rewriter.matcher, graph)
       IN  \E k \in DOMAIN ms : rewriter.lhs_to_rhs[ms[k].pattern_id + 1] # ms[k].pattern_id

\* C10: for a match with pairwise distinct boundary vertices, none of them
\* interior, the vertex map is injective onto live vertices and the result has
\* an edge between two mapped vertices exactly when the RHS has one.
C10_RhsCopiedExactly ==
    (/\ pc = "done"
     /\ \A i, j \in DOMAIN rewrite.lhs_boundary :
            i # j => rewrite.lhs_boundary[i] # rewrite.lhs_boundary[j]
     /\ Range(rewrite.lhs_boundary) \cap rewrite.lhs_internal = {})
    => /\ \A r1, r2 \in DOMAIN new_r_names : r1 # r2 => new_r_names[r1] # new_r_names[r2]
       /\ \A r \in DOMAIN new_r_names : Contains(g, new_r_names[r])
       /\ \A r1, r2 \in DOMAIN new_r_names :
              r1 # r2 => (Connected(g, new_r_names[r1], new_r_names[r2])
                              <=> Connected(rewrite.rhs, r1, r2))

====
